---- MODULE Spec2Model ----
(***************************************************************************)
(* Zeno optimization engine: OptimizationEngine.build_day_timeline.        *)
(*                                                                         *)
(* One call of build_day_timeline is modelled as a state machine: the      *)
(* call is entered (Call), the fixed blocks are sorted and validated, the   *)
(* buffered gaps are computed, the flexible tasks are sorted and placed    *)
(* one per step by the greedy loop, and the timeline is composed.          *)
(*                                                                         *)
(* Records keep the fields the engine reads or computes.  Pass-through     *)
(* text fields (FixedBlock.title, FlexibleTask.category) are left out.     *)
(* A title is the sequence of its characters' code points, so that         *)
(* str.lower() and string comparison are computed, not assumed.            *)
(***************************************************************************)
EXTENDS Integers, Sequences, FiniteSets, TLC

VARIABLES
    pc,                        \* position in build_day_timeline
    fixed_blocks,              \* request.fixed_blocks (input order)
    flexible_tasks,            \* request.flexible_tasks (input order)
    transition_buffer_minutes, \* request.transition_buffer_minutes
    sorted_blocks,             \* local fixed_blocks of build_day_timeline
    error,                     \* <<prev.id, curr.id>> of the ValueError, or <<>>
    available_gaps,            \* the gap pool (list of Interval)
    prioritized_tasks,         \* the sorted task list
    idx,                       \* position of the for loop in prioritized_tasks
    gap_index,                 \* local gap_index of the last iteration (0 = None)
    gap,                       \* local gap popped by the last placement
    scheduled_tasks,           \* list of ScheduledTask, in placement order
    unscheduled_tasks,         \* list of FlexibleTask, in rejection order
    response                   \* <<the TimelineResponse>> once returned, <<>> before

vars == <<pc, fixed_blocks, flexible_tasks, transition_buffer_minutes,
          sorted_blocks, error, available_gaps, prioritized_tasks, idx,
          gap_index, gap, scheduled_tasks, unscheduled_tasks, response>>

-----------------------------------------------------------------------------
(* Program constants (models.py) *)

MINUTES_PER_DAY == 1440

MinPriority == 1

MaxPriority == 3

DefaultBuffer == 15

MaxBuffer == 120

-----------------------------------------------------------------------------
(* Bounds of the model *)

\* longest fixed_blocks list of a request
MaxFixed == 2

\* longest flexible_tasks list of a request
MaxTasks == 2

-----------------------------------------------------------------------------
(* Builtins *)

Max(a, b) == IF a >= b THEN a ELSE b

Min(a, b) == IF a <= b THEN a ELSE b

\* Python's ordering of tuples of integers (and of strings, as code points):
\* lexicographic, a proper prefix being smaller.
LexLess(a, b) ==
    \E k \in 1..(Len(a) + 1) :
        /\ \A j \in 1..(k - 1) : j <= Len(b) /\ a[j] = b[j]
        /\ \/ k = Len(a) + 1 /\ Len(b) >= k
           \/ k <= Len(a) /\ k <= Len(b) /\ a[k] < b[k]

\* One insertion of the stable sort: index i goes before the first index whose
\* key is strictly greater, so equal keys stay in input order.
RECURSIVE InsertByKey(_, _, _)
InsertByKey(perm, i, keys) ==
    IF perm = <<>> THEN <<i>>
    ELSE IF LexLess(keys[i], keys[Head(perm)]) THEN <<i>> \o perm
    ELSE <<Head(perm)>> \o InsertByKey(Tail(perm), i, keys)

RECURSIVE SortIndices(_, _)
SortIndices(keys, n) ==
    IF n = 0 THEN <<>> ELSE InsertByKey(SortIndices(keys, n - 1), n, keys)

\* sorted(seq, key=...): stable, ascending by key; keys[i] is the key of seq[i].
SortedBy(seq, keys) ==
    LET perm == SortIndices(keys, Len(seq))
    IN  [i \in 1..Len(seq) |-> seq[perm[i]]]

\* str.lower() on one character: 'A'..'Z' (65..90) map to 'a'..'z'.
LowerChar(c) == IF c >= 65 /\ c <= 90 THEN c + 32 ELSE c

Lower(title) == [i \in 1..Len(title) |-> LowerChar(title[i])]

-----------------------------------------------------------------------------
(* engine.py *)

Interval(s, e) == [start |-> s, end |-> e]

Duration(iv) == iv.end - iv.start

BlockKey(block) == <<block.start_minute, block.end_minute>>

\* sorted(blocks, key=(start_minute, end_minute))
SortFixedBlocks(blocks) ==
    SortedBy(blocks, [i \in 1..Len(blocks) |-> BlockKey(blocks[i])])

\* OverlapAt with the comparison widened to <=: touching blocks are rejected
OverlapAtTouching(blocks) ==
    {i \in 2..Len(blocks) : blocks[i].start_minute <= blocks[i - 1].end_minute}

\* the indexes idx (1-based position of curr) at which the check raises
OverlapAt(blocks) ==
    {i \in 2..Len(blocks) : blocks[i].start_minute < blocks[i - 1].end_minute}

FirstOverlap(blocks) == CHOOSE i \in OverlapAt(blocks) : \A j \in OverlapAt(blocks) : i <= j

\* BufferedInterval without the buffer
BufferedIntervalUnbuffered(block, buffer) ==
    Interval(block.start_minute, block.end_minute)

BufferedInterval(block, buffer) ==
    Interval(Max(0, block.start_minute - buffer),
             Min(MINUTES_PER_DAY, block.end_minute + buffer))

IntervalKey(iv) == <<iv.start, iv.end>>

RECURSIVE MergeLoop(_, _)
MergeLoop(merged, rest) ==
    IF rest = <<>> THEN merged
    ELSE LET current == Head(rest)
             last == merged[Len(merged)]
         IN  IF current.start <= last.end
             THEN MergeLoop([merged EXCEPT ![Len(merged)] =
                                Interval(last.start, Max(last.end, current.end))],
                            Tail(rest))
             ELSE MergeLoop(Append(merged, current), Tail(rest))

MergeIntervals(intervals) ==
    IF intervals = <<>> THEN <<>>
    ELSE LET sorted_intervals ==
                 SortedBy(intervals, [i \in 1..Len(intervals) |-> IntervalKey(intervals[i])])
         IN  MergeLoop(<<Head(sorted_intervals)>>, Tail(sorted_intervals))

\* GapWalk emitting a gap when cursor <= interval.start
RECURSIVE GapWalkEmptyGaps(_, _, _)
GapWalkEmptyGaps(gaps, cursor, merged) ==
    IF merged = <<>> THEN <<gaps, cursor>>
    ELSE LET interval == Head(merged)
             gaps1 == IF cursor <= interval.start
                      THEN Append(gaps, Interval(cursor, interval.start))
                      ELSE gaps
         IN  GapWalkEmptyGaps(gaps1, Max(cursor, interval.end), Tail(merged))

\* the cursor walk of _available_gaps (lines 117-121): returns <<gaps, cursor>>
RECURSIVE GapWalk(_, _, _)
GapWalk(gaps, cursor, merged) ==
    IF merged = <<>> THEN <<gaps, cursor>>
    ELSE LET interval == Head(merged)
             gaps1 == IF cursor < interval.start
                      THEN Append(gaps, Interval(cursor, interval.start))
                      ELSE gaps
         IN  GapWalk(gaps1, Max(cursor, interval.end), Tail(merged))

AvailableGaps(blocks, buffer) ==
    IF blocks = <<>> THEN <<Interval(0, MINUTES_PER_DAY)>>
    ELSE LET buffered == [i \in 1..Len(blocks) |-> BufferedInterval(blocks[i], buffer)]
             merged == MergeIntervals(buffered)
             walk == GapWalk(<<>>, 0, merged)
         IN  IF walk[2] < MINUTES_PER_DAY
             THEN Append(walk[1], Interval(walk[2], MINUTES_PER_DAY))
             ELSE walk[1]

\* TaskKey without the title
TaskKeyNoTitle(task) == <<task.priority, 0 - task.duration_minutes>>

\* key=(priority, -duration_minutes, title.lower()); the title's characters
\* follow the two integers, which orders the keys as Python orders the tuples.
TaskKey(task) == <<task.priority, 0 - task.duration_minutes>> \o Lower(task.title)

PrioritizeTasks(tasks) == SortedBy(tasks, [i \in 1..Len(tasks) |-> TaskKey(tasks[i])])

\* Fitting with the comparison narrowed to >: an exact fit is no fit
FittingStrict(gaps, duration_minutes) ==
    {i \in 1..Len(gaps) : Duration(gaps[i]) > duration_minutes}

\* the indexes of the gaps a task of this duration fits in
Fitting(gaps, duration_minutes) ==
    {i \in 1..Len(gaps) : Duration(gaps[i]) >= duration_minutes}

\* LargestFittingGapIndex keeping the last index of maximal duration
LargestFittingGapIndexLast(gaps, duration_minutes) ==
    LET fitting == {i \in 1..Len(gaps) : Duration(gaps[i]) >= duration_minutes}
    IN  IF fitting = {} THEN 0
        ELSE CHOOSE i \in fitting :
                 \A j \in fitting :
                     \/ Duration(gaps[j]) < Duration(gaps[i])
                     \/ Duration(gaps[j]) = Duration(gaps[i]) /\ i >= j

\* max(fitting, key=duration)[0]: the first index of maximal duration; 0 is None
LargestFittingGapIndex(gaps, duration_minutes) ==
    LET fitting == Fitting(gaps, duration_minutes)
    IN  IF fitting = {} THEN 0
        ELSE CHOOSE i \in fitting :
                 \A j \in fitting :
                     \/ Duration(gaps[j]) < Duration(gaps[i])
                     \/ Duration(gaps[j]) = Duration(gaps[i]) /\ i <= j

\* list.pop(i)
Pop(list, i) == [k \in 1..(Len(list) - 1) |-> IF k < i THEN list[k] ELSE list[k + 1]]

ScheduledTask(task, start, end) ==
    [id |-> task.id, title |-> task.title, priority |-> task.priority,
     start_minute |-> start, end_minute |-> end]

\* PoolAfterPlacement whose leftover starts at the gap's start
PoolAfterPlacementWholeGap(gaps, i, end) ==
    IF end < gaps[i].end
    THEN Append([k \in 1..(Len(gaps) - 1) |-> IF k < i THEN gaps[k] ELSE gaps[k + 1]],
                [start |-> gaps[i].start, end |-> gaps[i].end])
    ELSE [k \in 1..(Len(gaps) - 1) |-> IF k < i THEN gaps[k] ELSE gaps[k + 1]]

\* the pool after a placement: the gap popped, the leftover appended
PoolAfterPlacement(gaps, i, end) ==
    IF end < gaps[i].end
    THEN Append(Pop(gaps, i), Interval(end, gaps[i].end))
    ELSE Pop(gaps, i)

\* GreedyStep that drops a task no gap fits
GreedyStepDropsRejected(st, task) ==
    LET i == LargestFittingGapIndex(st.gaps, task.duration_minutes)
    IN  IF i = 0
        THEN st
        ELSE LET start == st.gaps[i].start
                 end == start + task.duration_minutes
             IN  [gaps |-> PoolAfterPlacement(st.gaps, i, end),
                  scheduled |-> Append(st.scheduled, ScheduledTask(task, start, end)),
                  unscheduled |-> st.unscheduled]

\* one iteration of the for loop on a state st = [gaps, scheduled, unscheduled]
GreedyStep(st, task) ==
    LET i == LargestFittingGapIndex(st.gaps, task.duration_minutes)
    IN  IF i = 0
        THEN [st EXCEPT !.unscheduled = Append(@, task)]
        ELSE LET start == st.gaps[i].start
                 end == start + task.duration_minutes
             IN  [gaps |-> PoolAfterPlacement(st.gaps, i, end),
                  scheduled |-> Append(st.scheduled, ScheduledTask(task, start, end)),
                  unscheduled |-> st.unscheduled]

\* the for loop of lines 48-72 run to its end
RECURSIVE GreedyLoop(_, _)
GreedyLoop(st, tasks) ==
    IF tasks = <<>> THEN st ELSE GreedyLoop(GreedyStep(st, Head(tasks)), Tail(tasks))

\* lines 36-72 on the gap pool of _available_gaps and a request's flexible tasks
Assign(gaps, tasks) ==
    GreedyLoop([gaps |-> gaps, scheduled |-> <<>>, unscheduled |-> <<>>],
               PrioritizeTasks(tasks))

FixedSlot(block) ==
    [slot_type |-> "fixed", id |-> block.id,
     start_minute |-> block.start_minute, end_minute |-> block.end_minute]

TaskSlot(task) ==
    [slot_type |-> "task", id |-> task.id,
     start_minute |-> task.start_minute, end_minute |-> task.end_minute]

\* the id of a free slot is derived from its bounds, which the record holds
FreeSlot(s, e) ==
    [slot_type |-> "free", id |-> "free", start_minute |-> s, end_minute |-> e]

SlotKey(slot) == <<slot.start_minute, slot.end_minute>>

\* TimelineWalk that emits no free slot
RECURSIVE TimelineWalkNoFree(_, _, _)
TimelineWalkNoFree(timeline, cursor, occupied) ==
    IF occupied = <<>> THEN <<timeline, cursor>>
    ELSE TimelineWalkNoFree(Append(timeline, Head(occupied)),
                            IF cursor >= Head(occupied).end_minute
                            THEN cursor ELSE Head(occupied).end_minute,
                            Tail(occupied))

RECURSIVE TimelineWalk(_, _, _)
TimelineWalk(timeline, cursor, occupied) ==
    IF occupied = <<>> THEN <<timeline, cursor>>
    ELSE LET slot == Head(occupied)
             t1 == IF cursor < slot.start_minute
                   THEN Append(timeline, FreeSlot(cursor, slot.start_minute))
                   ELSE timeline
         IN  TimelineWalk(Append(t1, slot), Max(cursor, slot.end_minute), Tail(occupied))

\* ComposeTimeline without the trailing free slot
ComposeTimelineNoTrailing(blocks, scheduled) ==
    LET slots == [i \in 1..Len(blocks) |-> FixedSlot(blocks[i])]
                     \o [i \in 1..Len(scheduled) |-> TaskSlot(scheduled[i])]
        occupied == SortedBy(slots, [i \in 1..Len(slots) |-> SlotKey(slots[i])])
    IN  TimelineWalk(<<>>, 0, occupied)[1]

ComposeTimeline(blocks, scheduled) ==
    LET slots == [i \in 1..Len(blocks) |-> FixedSlot(blocks[i])]
                     \o [i \in 1..Len(scheduled) |-> TaskSlot(scheduled[i])]
        occupied == SortedBy(slots, [i \in 1..Len(slots) |-> SlotKey(slots[i])])
        walk == TimelineWalk(<<>>, 0, occupied)
    IN  IF walk[2] < MINUTES_PER_DAY
        THEN Append(walk[1], FreeSlot(walk[2], MINUTES_PER_DAY))
        ELSE walk[1]

StartKey(item) == <<item.start_minute>>

TimelineResponse(buffer, timeline, scheduled, unscheduled) ==
    [transition_buffer_minutes |-> buffer,
     timeline |-> timeline,
     scheduled_tasks |->
         SortedBy(scheduled, [i \in 1..Len(scheduled) |-> StartKey(scheduled[i])]),
     unscheduled_tasks |-> unscheduled]

-----------------------------------------------------------------------------
(* Requests *)

\* "a", "A" and "B" as code points
TitleLowerA == <<97>>

TitleUpperA == <<65>>

TitleUpperB == <<66>>

\* (id, title) of the flexible tasks a request draws from: two ids that can
\* repeat, titles equal up to case, titles whose order the case changes
TaskNames == {<<"t1", TitleLowerA>>, <<"t2", TitleUpperA>>, <<"t1", TitleUpperB>>}

Durations == {60, 120}

Priorities == {MinPriority, MaxPriority}

\* the 100-minute task of the tie-break scenario (two gaps of 100 minutes)
ExactFitTask ==
    [id |-> "t2", title |-> TitleUpperA, duration_minutes |-> 100, priority |-> MinPriority]

TaskMenu ==
    {[id |-> n[1], title |-> n[2], duration_minutes |-> d, priority |-> p] :
        n \in TaskNames, d \in Durations, p \in Priorities} \cup {ExactFitTask}

\* (start_minute, end_minute) of the fixed blocks of a request with tasks
FixedMenu ==
    {<<100, 500>>, <<600, 1440>>, <<150, 1440>>, <<180, 1320>>, <<540, 570>>, <<0, 1440>>}

\* block times of a request without tasks: every interval between two of them
FixedTimes == {0, 30, 60, 90, 540, 570, 1320, 1440}

FixedOnlyMenu == {<<s, e>> \in FixedTimes \X FixedTimes : s < e}

Buffers == {0, DefaultBuffer}

FixedOnlyBuffers == {0, DefaultBuffer, MaxBuffer}

\* ids of the fixed blocks, by position in the request
BlockIds == <<"A", "B", "C", "D">>

SeqsUpTo(S, n) == UNION {[1..k -> S] : k \in 0..n}

BlockList(bounds) ==
    [i \in 1..Len(bounds) |->
        [id |-> BlockIds[i], start_minute |-> bounds[i][1], end_minute |-> bounds[i][2]]]

NoGap == Interval(0, 0)

-----------------------------------------------------------------------------
(* build_day_timeline, step by step *)

Init ==
    /\ pc = "idle"
    /\ fixed_blocks = <<>>
    /\ flexible_tasks = <<>>
    /\ transition_buffer_minutes = 0
    /\ sorted_blocks = <<>>
    /\ error = <<>>
    /\ available_gaps = <<>>
    /\ prioritized_tasks = <<>>
    /\ idx = 0
    /\ gap_index = 0
    /\ gap = NoGap
    /\ scheduled_tasks = <<>>
    /\ unscheduled_tasks = <<>>
    /\ response = <<>>

\* build_day_timeline(request) is entered.  request.flexible_tasks is not read
\* before line 40, and the model draws it there (Prepare).
Receive(blocks, buffer) ==
    /\ pc' = "validate"
    /\ fixed_blocks' = blocks
    /\ transition_buffer_minutes' = buffer
    /\ UNCHANGED <<flexible_tasks, sorted_blocks, error, available_gaps,
                   prioritized_tasks, idx, gap_index, gap, scheduled_tasks,
                   unscheduled_tasks, response>>

\* a request whose fixed blocks come from FixedMenu
Call ==
    /\ pc = "idle"
    /\ \E bounds \in SeqsUpTo(FixedMenu, MaxFixed), buffer \in Buffers :
           Receive(BlockList(bounds), buffer)

\* a request whose fixed blocks come from FixedOnlyMenu
CallFixedOnly ==
    /\ pc = "idle"
    /\ \E bounds \in SeqsUpTo(FixedOnlyMenu, MaxFixed), buffer \in FixedOnlyBuffers :
           Receive(BlockList(bounds), buffer)

\* _sorted_non_overlapping_fixed_blocks returns the sorted list
ValidateOk ==
    /\ pc = "validate"
    /\ OverlapAt(SortFixedBlocks(fixed_blocks)) = {}
    /\ sorted_blocks' = SortFixedBlocks(fixed_blocks)
    /\ pc' = "gaps"
    /\ UNCHANGED <<fixed_blocks, flexible_tasks, transition_buffer_minutes, error,
                   available_gaps, prioritized_tasks, idx, gap_index, gap,
                   scheduled_tasks, unscheduled_tasks, response>>

\* _sorted_non_overlapping_fixed_blocks raises ValueError; the call ends
ValidateOverlap ==
    /\ pc = "validate"
    /\ OverlapAt(SortFixedBlocks(fixed_blocks)) # {}
    /\ LET blocks == SortFixedBlocks(fixed_blocks)
           i == FirstOverlap(blocks)
       IN  error' = <<blocks[i - 1].id, blocks[i].id>>
    /\ pc' = "error"
    /\ UNCHANGED <<fixed_blocks, flexible_tasks, transition_buffer_minutes,
                   sorted_blocks, available_gaps, prioritized_tasks, idx, gap_index,
                   gap, scheduled_tasks, unscheduled_tasks, response>>

\* lines 31-46: the gap pool, the two empty lists, the sorted tasks
Prepare(tasks) ==
    /\ pc = "gaps"
    /\ flexible_tasks' = tasks
    /\ available_gaps' = AvailableGaps(sorted_blocks, transition_buffer_minutes)
    /\ scheduled_tasks' = <<>>
    /\ unscheduled_tasks' = <<>>
    /\ prioritized_tasks' = PrioritizeTasks(tasks)
    /\ idx' = 1
    /\ pc' = "assign"
    /\ UNCHANGED <<fixed_blocks, transition_buffer_minutes, sorted_blocks, error,
                   gap_index, gap, response>>

\* the request holds flexible tasks from TaskMenu
PrepareTasks ==
    /\ pc = "gaps"
    /\ \E tasks \in SeqsUpTo(TaskMenu, MaxTasks) : Prepare(tasks)

\* the request holds no flexible task
PrepareNoTasks == Prepare(<<>>)

LoopState ==
    [gaps |-> available_gaps, scheduled |-> scheduled_tasks,
     unscheduled |-> unscheduled_tasks]

\* one iteration of the for loop on the task at idx
Iterate ==
    LET task == prioritized_tasks[idx]
        st == GreedyStep(LoopState, task)
    IN  /\ available_gaps' = st.gaps
        /\ scheduled_tasks' = st.scheduled
        /\ unscheduled_tasks' = st.unscheduled
        /\ idx' = idx + 1
        /\ UNCHANGED <<pc, fixed_blocks, flexible_tasks, transition_buffer_minutes,
                       sorted_blocks, error, prioritized_tasks, response>>

\* lines 52-54: no gap fits
RejectTask ==
    /\ pc = "assign"
    /\ idx <= Len(prioritized_tasks)
    /\ LargestFittingGapIndex(available_gaps, prioritized_tasks[idx].duration_minutes) = 0
    /\ gap_index' = 0
    /\ UNCHANGED gap
    /\ Iterate

\* lines 56-72: the largest fitting gap is popped and the task bound to its start
PlaceTask ==
    /\ pc = "assign"
    /\ idx <= Len(prioritized_tasks)
    /\ LET i == LargestFittingGapIndex(available_gaps,
                                       prioritized_tasks[idx].duration_minutes)
       IN  /\ i # 0
           /\ gap_index' = i
           /\ gap' = available_gaps[i]
    /\ Iterate

\* lines 74-82: the timeline is composed and the response returned
Return ==
    /\ pc = "assign"
    /\ idx > Len(prioritized_tasks)
    /\ response' = <<TimelineResponse(transition_buffer_minutes,
                                      ComposeTimeline(sorted_blocks, scheduled_tasks),
                                      scheduled_tasks, unscheduled_tasks)>>
    /\ pc' = "done"
    /\ UNCHANGED <<fixed_blocks, flexible_tasks, transition_buffer_minutes,
                   sorted_blocks, error, available_gaps, prioritized_tasks, idx,
                   gap_index, gap, scheduled_tasks, unscheduled_tasks>>

Next ==
    \/ Call
    \/ ValidateOk
    \/ ValidateOverlap
    \/ PrepareTasks
    \/ RejectTask
    \/ PlaceTask
    \/ Return

Spec == Init /\ [][Next]_vars

NextFixedOnly ==
    \/ CallFixedOnly
    \/ ValidateOk
    \/ ValidateOverlap
    \/ PrepareNoTasks
    \/ Return

SpecFixedOnly == Init /\ [][NextFixedOnly]_vars

-----------------------------------------------------------------------------
(* Properties *)

Returned == pc = "done"

\* [a1, a2) and [b1, b2) share a minute
Overlaps(a1, a2, b1, b2) == a1 < b2 /\ b1 < a2

\* the buffered interval of a fixed block, as the request states it
BufferedStart(block) == Max(0, block.start_minute - transition_buffer_minutes)

BufferedEnd(block) == Min(MINUTES_PER_DAY, block.end_minute + transition_buffer_minutes)

CountId(list, id) == Cardinality({i \in 1..Len(list) : list[i].id = id})

Ids(list) == {list[i].id : i \in 1..Len(list)}

IndexPermutations(n) == {p \in [1..n -> 1..n] : \A i, j \in 1..n : p[i] = p[j] => i = j}

\* the order the claim states: priority ascending, duration descending,
\* case-insensitive title ascending
OrderedBefore(t, u) ==
    \/ t.priority < u.priority
    \/ t.priority = u.priority /\ t.duration_minutes > u.duration_minutes
    \/ /\ t.priority = u.priority
       /\ t.duration_minutes = u.duration_minutes
       /\ LexLess(Lower(t.title), Lower(u.title))

SameRank(t, u) == ~OrderedBefore(t, u) /\ ~OrderedBefore(u, t)

\* what a run binds: the scheduled tasks with their intervals, the rejected in order
Outcome(st) ==
    [scheduled |-> {st.scheduled[i] : i \in 1..Len(st.scheduled)},
     unscheduled |-> st.unscheduled]

\* what a run binds at each position of the processing order, whoever the task is
Shape(st) ==
    [scheduled |-> [i \in 1..Len(st.scheduled) |->
                       <<st.scheduled[i].start_minute, st.scheduled[i].end_minute,
                         st.scheduled[i].priority>>],
     unscheduled |-> [i \in 1..Len(st.unscheduled) |->
                         <<st.unscheduled[i].duration_minutes,
                           st.unscheduled[i].priority>>]]

FreeBounds(timeline) ==
    {<<timeline[i].start_minute, timeline[i].end_minute>> :
        i \in {k \in 1..Len(timeline) : timeline[k].slot_type = "free"}}

\* the request of scenario 2: one fixed block 540-570, buffer 15, no flexible task
StandupRequest ==
    /\ Len(fixed_blocks) = 1
    /\ fixed_blocks[1].start_minute = 540
    /\ fixed_blocks[1].end_minute = 570
    /\ transition_buffer_minutes = 15
    /\ flexible_tasks = <<>>

\* C1: the returned timeline is in chronological order, every slot has
\* end > start, the first slot starts at 0, the last ends at 1440 and every
\* slot starts where the previous one ends: the slots tile [0, 1440).
C1_TimelineTiles ==
    Returned =>
        LET tl == response[1].timeline
        IN  /\ Len(tl) >= 1
            /\ tl[1].start_minute = 0
            /\ tl[Len(tl)].end_minute = MINUTES_PER_DAY
            /\ \A i \in 1..Len(tl) : tl[i].end_minute > tl[i].start_minute
            /\ \A i \in 1..(Len(tl) - 1) : tl[i + 1].start_minute = tl[i].end_minute
            /\ \A i, j \in 1..Len(tl) :
                   i < j => ~Overlaps(tl[i].start_minute, tl[i].end_minute,
                                      tl[j].start_minute, tl[j].end_minute)

\* a returned timeline with fixed, task and free slots
C1_Witness ==
    /\ Returned
    /\ Len(response[1].timeline) >= 5
    /\ \A ty \in {"fixed", "task", "free"} :
           \E i \in 1..Len(response[1].timeline) : response[1].timeline[i].slot_type = ty

\* C2: the call ends in the overlap error, naming the two blocks, and returns
\* nothing, exactly when some adjacent pair of the sorted blocks has
\* curr.start_minute < prev.end_minute; touching blocks pass; blocks 0-60 and
\* 30-90 are rejected naming both, in either input order.
C2_OverlapRejected ==
    pc \notin {"idle", "validate"} =>
        LET blocks == SortFixedBlocks(fixed_blocks)
            bad == {i \in 2..Len(blocks) :
                       blocks[i].start_minute < blocks[i - 1].end_minute}
        IN  /\ pc = "error" <=> bad # {}
            /\ pc = "error" <=>
                   \E i, j \in 1..Len(fixed_blocks) :
                       /\ i < j
                       /\ Overlaps(fixed_blocks[i].start_minute, fixed_blocks[i].end_minute,
                                   fixed_blocks[j].start_minute, fixed_blocks[j].end_minute)
            /\ pc = "error" =>
                   /\ \E i \in bad : error = <<blocks[i - 1].id, blocks[i].id>>
                   /\ response = <<>>
                   /\ scheduled_tasks = <<>>
                   /\ unscheduled_tasks = <<>>
            /\ pc # "error" => error = <<>>
            /\ ( /\ Len(fixed_blocks) = 2
                 /\ {BlockKey(fixed_blocks[1]), BlockKey(fixed_blocks[2])}
                        = {<<0, 60>>, <<30, 90>>} ) =>
                   /\ pc = "error"
                   /\ {error[1], error[2]} = {fixed_blocks[1].id, fixed_blocks[2].id}
                   /\ error[1] # error[2]

\* blocks 30-90 and 0-60, in this input order, rejected naming the 0-60 block first
C2_Witness ==
    /\ pc = "error"
    /\ Len(fixed_blocks) = 2
    /\ BlockKey(fixed_blocks[1]) = <<30, 90>>
    /\ BlockKey(fixed_blocks[2]) = <<0, 60>>
    /\ error = <<fixed_blocks[2].id, fixed_blocks[1].id>>

\* C3: at every step of the greedy loop and in the response, no scheduled task
\* overlaps a fixed block and no two scheduled tasks overlap.
C3_ScheduledDisjoint ==
    pc \in {"assign", "done"} =>
        LET Disjoint(list) ==
                /\ \A i \in 1..Len(list), b \in 1..Len(fixed_blocks) :
                       ~Overlaps(list[i].start_minute, list[i].end_minute,
                                 fixed_blocks[b].start_minute, fixed_blocks[b].end_minute)
                /\ \A i, j \in 1..Len(list) :
                       i # j => ~Overlaps(list[i].start_minute, list[i].end_minute,
                                          list[j].start_minute, list[j].end_minute)
        IN  /\ Disjoint(scheduled_tasks)
            /\ Returned => Disjoint(response[1].scheduled_tasks)

\* two tasks scheduled around two fixed blocks
C3_Witness ==
    /\ Returned
    /\ Len(response[1].scheduled_tasks) >= 2
    /\ Len(fixed_blocks) >= 2

\* C4 as stated: every task id of the request is in exactly one of the two
\* lists, no other id is in either, and the lengths add up.
C4_ByIdPartition ==
    Returned =>
        LET r == response[1]
        IN  /\ \A id \in Ids(flexible_tasks) :
                   (id \in Ids(r.scheduled_tasks)) # (id \in Ids(r.unscheduled_tasks))
            /\ Ids(r.scheduled_tasks) \cup Ids(r.unscheduled_tasks) \subseteq Ids(flexible_tasks)
            /\ Len(r.scheduled_tasks) + Len(r.unscheduled_tasks) = Len(flexible_tasks)

\* C4: every entry of flexible_tasks is in exactly one of the two lists: an id
\* the request holds k times is held k times by the two lists together, no
\* other id is in either, the lengths add up, and when the ids of the request
\* are distinct each is in exactly one list.
C4_EntryPartition ==
    Returned =>
        LET r == response[1]
        IN  /\ \A id \in Ids(flexible_tasks) \cup Ids(r.scheduled_tasks)
                             \cup Ids(r.unscheduled_tasks) :
                   CountId(r.scheduled_tasks, id) + CountId(r.unscheduled_tasks, id)
                       = CountId(flexible_tasks, id)
            /\ \A i \in 1..Len(r.unscheduled_tasks) :
                   \E k \in 1..Len(flexible_tasks) : r.unscheduled_tasks[i] = flexible_tasks[k]
            /\ \A i \in 1..Len(r.scheduled_tasks) :
                   \E k \in 1..Len(flexible_tasks) :
                       /\ r.scheduled_tasks[i].id = flexible_tasks[k].id
                       /\ r.scheduled_tasks[i].title = flexible_tasks[k].title
                       /\ r.scheduled_tasks[i].priority = flexible_tasks[k].priority
                       /\ r.scheduled_tasks[i].end_minute - r.scheduled_tasks[i].start_minute
                              = flexible_tasks[k].duration_minutes
            /\ Len(r.scheduled_tasks) + Len(r.unscheduled_tasks) = Len(flexible_tasks)
            /\ (\A id \in Ids(flexible_tasks) : CountId(flexible_tasks, id) = 1) =>
                   \A id \in Ids(flexible_tasks) :
                       (id \in Ids(r.scheduled_tasks)) # (id \in Ids(r.unscheduled_tasks))

\* two tasks of one id, one scheduled and one not
C4_Witness ==
    /\ Returned
    /\ Len(flexible_tasks) = 2
    /\ flexible_tasks[1].id = flexible_tasks[2].id
    /\ Len(response[1].scheduled_tasks) = 1
    /\ Len(response[1].unscheduled_tasks) = 1

\* a placement step of the greedy loop
Placement == pc = "assign" /\ idx' = idx + 1 /\ Len(scheduled_tasks') = Len(scheduled_tasks) + 1

\* C5 as stated: a placement takes a gap of maximal duration among the fitting
\* ones and, among those, the one of earliest start.
C5_EarliestStartTie ==
    [][Placement =>
        LET d == prioritized_tasks[idx].duration_minutes
            fit == {i \in 1..Len(available_gaps) : Duration(available_gaps[i]) >= d}
            new == scheduled_tasks'[Len(scheduled_tasks')]
        IN  \E i \in fit :
                /\ new.start_minute = available_gaps[i].start
                /\ \A j \in fit :
                       \/ Duration(available_gaps[j]) < Duration(available_gaps[i])
                       \/ /\ Duration(available_gaps[j]) = Duration(available_gaps[i])
                          /\ available_gaps[i].start <= available_gaps[j].start]_vars

\* C5: a placement takes a gap of maximal duration among the fitting ones and,
\* among those, the first in the pool's list order (the gaps of _available_gaps
\* in start order, then the leftovers in the order they were appended); equal
\* gaps [0,100) and [500,600) place a 100-minute task in [0,100).
C5_FirstInPoolTie ==
    [][Placement =>
        LET d == prioritized_tasks[idx].duration_minutes
            fit == {i \in 1..Len(available_gaps) : Duration(available_gaps[i]) >= d}
            new == scheduled_tasks'[Len(scheduled_tasks')]
        IN  /\ \E i \in fit :
                   /\ new.start_minute = available_gaps[i].start
                   /\ new.end_minute = available_gaps[i].start + d
                   /\ gap_index' = i
                   /\ gap' = available_gaps[i]
                   /\ \A j \in fit :
                          \/ Duration(available_gaps[j]) < Duration(available_gaps[i])
                          \/ /\ Duration(available_gaps[j]) = Duration(available_gaps[i])
                             /\ i <= j
            /\ (available_gaps = <<Interval(0, 100), Interval(500, 600)>> /\ d = 100) =>
                   new.start_minute = 0 /\ new.end_minute = 100]_vars

\* a task was just placed in a gap although the pool held, and still holds, a gap
\* of the same duration that starts earlier
C5_Witness ==
    /\ pc = "assign"
    /\ idx > 1
    /\ gap_index # 0
    /\ \E j \in 1..Len(available_gaps) :
           /\ Duration(available_gaps[j]) = Duration(gap)
           /\ available_gaps[j].start < gap.start

\* C6 as stated: no permutation of flexible_tasks changes which tasks are
\* scheduled, their intervals, or the order of unscheduled_tasks.
C6_PermutationInvariant ==
    Returned =>
        LET gaps == AvailableGaps(sorted_blocks, transition_buffer_minutes)
        IN  \A p \in IndexPermutations(Len(flexible_tasks)) :
                Outcome(Assign(gaps, [i \in 1..Len(flexible_tasks) |-> flexible_tasks[p[i]]]))
                    = Outcome(LoopState)

\* C6: the tasks are processed in the stated order, tasks that are equal in it
\* staying in input order; a permutation of flexible_tasks changes nothing when
\* no two different tasks are equal in that order, and in every case leaves the
\* intervals bound and the rejections at each position of the order unchanged.
C6_OrderDeterminesOutcome ==
    Returned =>
        LET n == Len(flexible_tasks)
            Permuted(p) == [i \in 1..n |-> flexible_tasks[p[i]]]
            gaps == AvailableGaps(sorted_blocks, transition_buffer_minutes)
            Run(tasks) == Assign(gaps, tasks)
            shape == Shape(LoopState)
            outcome == Outcome(LoopState)
            distinct == \A i, j \in 1..n :
                            SameRank(flexible_tasks[i], flexible_tasks[j])
                                => flexible_tasks[i] = flexible_tasks[j]
        IN  /\ \E p \in IndexPermutations(n) :
                   /\ prioritized_tasks = Permuted(p)
                   /\ \A i, j \in 1..n :
                          i < j =>
                              /\ ~OrderedBefore(prioritized_tasks[j], prioritized_tasks[i])
                              /\ SameRank(prioritized_tasks[i], prioritized_tasks[j])
                                     => p[i] < p[j]
            /\ \A p \in IndexPermutations(n) :
                   LET run == Run(Permuted(p))
                   IN  /\ Shape(run) = shape
                       /\ distinct => Outcome(run) = outcome

\* two scheduled tasks of one priority and duration whose titles are in one
\* order as written ("B" < "a") and in the other lowered ("a" < "b"): the
\* lowered titles decided the processing order
C6_Witness ==
    /\ Returned
    /\ Len(flexible_tasks) = 2
    /\ Len(scheduled_tasks) = 2
    /\ flexible_tasks[1].priority = flexible_tasks[2].priority
    /\ flexible_tasks[1].duration_minutes = flexible_tasks[2].duration_minutes
    /\ LexLess(Lower(flexible_tasks[2].title), Lower(flexible_tasks[1].title))
    /\ LexLess(flexible_tasks[1].title, flexible_tasks[2].title)
    /\ prioritized_tasks[1] = flexible_tasks[2]

\* C7 as stated: for the fixed block 540-570 with buffer 15 and no task, the
\* timeline holds the fixed slot 540-570 and the free slots [0,525), [585,1440).
C7_BufferedFreeSlots ==
    (Returned /\ StandupRequest) =>
        /\ \E i \in 1..Len(response[1].timeline) :
               /\ response[1].timeline[i].slot_type = "fixed"
               /\ response[1].timeline[i].start_minute = 540
               /\ response[1].timeline[i].end_minute = 570
        /\ FreeBounds(response[1].timeline) = {<<0, 525>>, <<585, MINUTES_PER_DAY>>}

\* C7: for that request the timeline is free [0,540), fixed 540-570, free
\* [570,1440); the buffer shows in the gap pool only, which is [0,525), [585,1440).
C7_FreeSlotsAroundFixed ==
    (Returned /\ StandupRequest) =>
        /\ Len(response[1].timeline) = 3
        /\ response[1].timeline[2].slot_type = "fixed"
        /\ response[1].timeline[2].id = fixed_blocks[1].id
        /\ response[1].timeline[2].start_minute = 540
        /\ response[1].timeline[2].end_minute = 570
        /\ FreeBounds(response[1].timeline) = {<<0, 540>>, <<570, MINUTES_PER_DAY>>}
        /\ available_gaps = <<Interval(0, 525), Interval(585, MINUTES_PER_DAY)>>

\* the call of scenario 2 returned
C7_Witness == Returned /\ StandupRequest

\* C8: at its turn a task goes to unscheduled_tasks exactly when no pool gap has
\* duration >= its duration; the rejection appends the task unmodified, leaves
\* the pool and the scheduled tasks as they are and the loop goes on; tasks of
\* 120 and 60 minutes of one priority against a single 150-minute gap end with
\* the 120-minute task at the gap's start, a 30-minute leftover and the
\* 60-minute task unscheduled.
C8_RejectIffNoFit ==
    /\ [][(pc = "assign" /\ idx <= Len(prioritized_tasks)) =>
            LET task == prioritized_tasks[idx]
                nofit == \A i \in 1..Len(available_gaps) :
                             Duration(available_gaps[i]) < task.duration_minutes
            IN  /\ unscheduled_tasks' = Append(unscheduled_tasks, task) <=> nofit
                /\ ~nofit => unscheduled_tasks' = unscheduled_tasks
                /\ nofit => /\ available_gaps' = available_gaps
                            /\ scheduled_tasks' = scheduled_tasks
                            /\ pc' = "assign"
                /\ idx' = idx + 1]_vars
    /\ [](( /\ Returned
            /\ Len(flexible_tasks) = 2
            /\ {flexible_tasks[1].duration_minutes, flexible_tasks[2].duration_minutes}
                   = {60, 120}
            /\ flexible_tasks[1].priority = flexible_tasks[2].priority
            /\ AvailableGaps(sorted_blocks, transition_buffer_minutes) = <<Interval(0, 150)>> )
           => /\ Len(scheduled_tasks) = 1
              /\ scheduled_tasks[1].start_minute = 0
              /\ scheduled_tasks[1].end_minute = 120
              /\ available_gaps = <<Interval(120, 150)>>
              /\ Len(unscheduled_tasks) = 1
              /\ unscheduled_tasks[1].duration_minutes = 60
              /\ unscheduled_tasks[1] \in {flexible_tasks[1], flexible_tasks[2]})

\* a task was rejected and the next, shorter one was then placed
C8_Witness ==
    /\ pc = "assign"
    /\ idx = 3
    /\ gap_index # 0
    /\ Len(unscheduled_tasks) = 1
    /\ Len(scheduled_tasks) = 1
    /\ unscheduled_tasks[1] = prioritized_tasks[1]
    /\ prioritized_tasks[2].duration_minutes < prioritized_tasks[1].duration_minutes

\* C9: at every step of the greedy loop every pool gap has positive duration,
\* the pool gaps are pairwise disjoint and each is disjoint from every buffered
\* fixed block and from every scheduled task; every scheduled task lies in
\* [0, 1440) and is disjoint from every buffered fixed block.
C9_BufferRespected ==
    pc \in {"assign", "done"} =>
        /\ \A i \in 1..Len(available_gaps) :
               /\ available_gaps[i].end > available_gaps[i].start
               /\ \A j \in 1..Len(available_gaps) :
                      i # j => ~Overlaps(available_gaps[i].start, available_gaps[i].end,
                                         available_gaps[j].start, available_gaps[j].end)
               /\ \A b \in 1..Len(fixed_blocks) :
                      ~Overlaps(available_gaps[i].start, available_gaps[i].end,
                                BufferedStart(fixed_blocks[b]), BufferedEnd(fixed_blocks[b]))
               /\ \A t \in 1..Len(scheduled_tasks) :
                      ~Overlaps(available_gaps[i].start, available_gaps[i].end,
                                scheduled_tasks[t].start_minute, scheduled_tasks[t].end_minute)
        /\ \A t \in 1..Len(scheduled_tasks) :
               /\ 0 <= scheduled_tasks[t].start_minute
               /\ scheduled_tasks[t].start_minute < scheduled_tasks[t].end_minute
               /\ scheduled_tasks[t].end_minute <= MINUTES_PER_DAY
               /\ \A b \in 1..Len(fixed_blocks) :
                      ~Overlaps(scheduled_tasks[t].start_minute, scheduled_tasks[t].end_minute,
                                BufferedStart(fixed_blocks[b]), BufferedEnd(fixed_blocks[b]))

\* with a positive buffer, a task was placed right after a fixed block's buffer
C9_Witness ==
    /\ pc = "assign"
    /\ transition_buffer_minutes > 0
    /\ \E t \in 1..Len(scheduled_tasks), b \in 1..Len(fixed_blocks) :
           /\ scheduled_tasks[t].start_minute = BufferedEnd(fixed_blocks[b])
           /\ scheduled_tasks[t].start_minute > fixed_blocks[b].end_minute
    /\ available_gaps # <<>>

\* C10: the gaps of _available_gaps are in start order, each with end > start,
\* disjoint and not touching, and a minute of [0, 1440) is in a gap exactly when
\* it is in no buffered interval; no fixed block gives [[0, 1440)], and a day the
\* buffered blocks cover gives no gap.
C10_GapsAreComplement ==
    pc = "assign" =>
        LET gaps == available_gaps
            Minutes == 0..(MINUTES_PER_DAY - 1)
            InGap(m) == \E i \in 1..Len(gaps) : gaps[i].start <= m /\ m < gaps[i].end
            InBuffered(m) == \E b \in 1..Len(sorted_blocks) :
                                 /\ BufferedStart(sorted_blocks[b]) <= m
                                 /\ m < BufferedEnd(sorted_blocks[b])
        IN  /\ \A i \in 1..Len(gaps) :
                   0 <= gaps[i].start /\ gaps[i].start < gaps[i].end
                                      /\ gaps[i].end <= MINUTES_PER_DAY
            /\ \A i \in 1..(Len(gaps) - 1) : gaps[i].end < gaps[i + 1].start
            /\ \A m \in Minutes : InGap(m) <=> ~InBuffered(m)
            /\ sorted_blocks = <<>> => gaps = <<Interval(0, MINUTES_PER_DAY)>>
            /\ (\A m \in Minutes : InBuffered(m)) => gaps = <<>>

\* two blocks whose buffered intervals touch were coalesced: one gap before,
\* one after, none between
C10_Witness ==
    /\ pc = "assign"
    /\ Len(sorted_blocks) = 2
    /\ BufferedEnd(sorted_blocks[1]) = BufferedStart(sorted_blocks[2])
    /\ Len(available_gaps) = 2
    /\ available_gaps[1].end = BufferedStart(sorted_blocks[1])
    /\ available_gaps[2].start = BufferedEnd(sorted_blocks[2])

====
